---- MODULE Spec2Model ----
(***************************************************************************)
(* A model of the I/O trap-and-dispatch layer (hypervisor/arch/x86/io.c)   *)
(* and of the cross-core notification primitive                            *)
(* (hypervisor/arch/x86/notify.c) of the ACRN hypervisor.                  *)
(***************************************************************************)
EXTENDS Integers, Sequences, FiniteSets, TLC

(***************************************************************************)
(* Bounds of the model.                                                    *)
(***************************************************************************)
\* physical cores of the platform: ids 0 .. NumCpus-1
NumCpus == 3
\* remote calls issued in one behaviour, system-wide
MaxCalls == 2
\* notification interrupts sent for another reason than a remote call
MaxKicks == 1
\* cores 0 .. NumCallers-1 issue remote calls
NumCallers == 2

Cpus == 0 .. (NumCpus - 1)

\* smp_call_info.func of a core no call has stored into (zero-initialised)
NULL == 0

\* INVALID_BIT_INDEX is 0xffff: "mask & INVALID_BIT_INDEX" keeps the bits
\* of cores 0..15.  A mask is modelled as the set of its set bits.
INVALID_BIT_INDEX == 65535

VARIABLES
    \* ---- notify.c ----
    smp_call_mask,       \* cores with a pending remote call
    pcpu_active_bitmap,  \* cores that are online
    smp_call_info,       \* per core: [func, data] of the remote-call slot
    ipi,                 \* per core: the notification vector is pending
    cpc,                 \* per core: position inside smp_call_function
    cmask,               \* per core: smp_call_function's local `mask`
    ccur,                \* per core: smp_call_function's local `pcpu_id`
    cfun,                \* per core: the call (func and data) being issued
    crd,                 \* per core: value read by the initiator's non-locked and
    hpc,                 \* per core: position inside kick_notification
    hfun,                \* per core: the func kick_notification read
    hrd,                 \* per core: value read by the handler's non-locked and
    calls,               \* history: the calls issued, with what ran for each
    kicks,               \* history: number of plain kicks sent
    \* ---- io.c ----
    is_vm0,              \* the machine is the privileged (service) machine
    partition_mode,      \* the build defines CONFIG_PARTITION_MODE
    iobitmap,            \* vm->arch_vm.iobitmap[0..1], or unallocated
    io_handler,          \* vm->arch_vm.io_handler: the list, head first
    mmio_list,           \* vm->mmio_list: the list, head first
    launched,            \* per virtual core: vcpu->launched
    vstate,              \* vcpu->state of virtual core 0, and whether it runs
    req,                 \* vcpu->req of virtual core 0
    rax,                 \* guest RAX of virtual core 0
    prework,             \* ACRN_VCPU_MMIO_COMPLETE is requested
    vhm_req,             \* the shared request slot of virtual core 0
    writer,              \* history: who wrote the slot's marker last
    invoked,             \* history: callbacks invoked by the last dispatch
    status,              \* history: what the last operation returned
    last,                \* history: the bitmap operations done last
    nops                 \* history: number of operations done

notifyVars == <<smp_call_mask, pcpu_active_bitmap, smp_call_info, ipi, cpc,
                cmask, ccur, cfun, crd, hpc, hfun, hrd, calls, kicks>>

ioVars == <<is_vm0, partition_mode, iobitmap, io_handler, mmio_list, launched,
            vstate, req, rax, prework, vhm_req, writer, invoked, status, last, nops>>

vars == <<notifyVars, ioVars>>

(***************************************************************************)
(* notify.c: the remote call and the notification interrupt handler.       *)
(* Steps that touch only a core's own locals are taken together with the   *)
(* access to shared memory that precedes them.                             *)
(***************************************************************************)

\* ffs64: the index of the lowest set bit of a non-empty mask
ffs64(m) == CHOOSE c \in m : \A d \in m : c <= d

\* the function (and argument) of the k-th call issued; each call passes
\* its own function and argument, so that what a core runs names the call
FuncOf(k) == k

NoCall == [func |-> NULL, data |-> NULL]

NotifyStart ==
    /\ smp_call_mask = {}
    /\ pcpu_active_bitmap \in SUBSET Cpus
    /\ smp_call_info = [c \in Cpus |-> NoCall]
    /\ ipi = [c \in Cpus |-> FALSE]
    /\ cpc = [c \in Cpus |-> "idle"]
    /\ cmask = [c \in Cpus |-> {}]
    /\ ccur = [c \in Cpus |-> 0]
    /\ cfun = [c \in Cpus |-> NULL]
    /\ crd = [c \in Cpus |-> {}]
    /\ hpc = [c \in Cpus |-> "idle"]
    /\ hfun = [c \in Cpus |-> NULL]
    /\ hrd = [c \in Cpus |-> {}]
    /\ calls = <<>>
    /\ kicks = 0

\* A core runs smp_call_function only while it is not inside its own
\* interrupt handler (the handler runs in interrupt context on that core).
Running(i) == i \in pcpu_active_bitmap /\ hpc[i] = "idle"

\* lines 40-42 and 46: the head of the loop over the local mask: the next
\* pcpu_id is taken out of the local mask and tested against
\* pcpu_active_bitmap; when the local mask is empty the loop is left.
LoopHead(i, m) ==
    IF m = {}
    THEN /\ cpc' = [cpc EXCEPT ![i] = "ipi"]
         /\ cmask' = [cmask EXCEPT ![i] = {}]
         /\ ccur' = [ccur EXCEPT ![i] = 0]
    ELSE LET pcpu_id == ffs64(m) IN
         /\ cmask' = [cmask EXCEPT ![i] = m \ {pcpu_id}]
         /\ ccur' = [ccur EXCEPT ![i] = pcpu_id]
         /\ cpc' = [cpc EXCEPT ![i] =
                      IF pcpu_id \in pcpu_active_bitmap THEN "func" ELSE "clr"]

\* smp_call_function(mask, func, data) is entered on core i
smp_call_function_enter(i, mask) ==
    /\ Running(i)
    /\ i < NumCallers
    /\ cpc[i] = "idle"
    /\ Len(calls) < MaxCalls
    /\ calls' = Append(calls, [mask |-> mask, returned |-> FALSE,
                               ran |-> [c \in Cpus |-> 0],
                               badarg |-> FALSE])
    /\ cfun' = [cfun EXCEPT ![i] = FuncOf(Len(calls) + 1)]
    /\ cmask' = [cmask EXCEPT ![i] = mask]
    /\ cpc' = [cpc EXCEPT ![i] = "claim"]
    /\ UNCHANGED <<smp_call_mask, pcpu_active_bitmap, smp_call_info, ipi,
                   ccur, crd, hpc, hfun, hrd, kicks>>
    /\ UNCHANGED ioVars

\* line 39: while (atomic_cmpxchg64(&smp_call_mask, 0UL, mask & INVALID_BIT_INDEX));
\* the loop is left by the compare-and-swap that found 0
smp_call_function_claim(i) ==
    /\ Running(i)
    /\ cpc[i] = "claim"
    /\ smp_call_mask = {}
    /\ smp_call_mask' = {c \in cmask[i] : c < 16 /\ INVALID_BIT_INDEX >= 2^c}
    /\ LoopHead(i, cmask[i])
    /\ UNCHANGED <<pcpu_active_bitmap, smp_call_info, ipi, cfun,
                   crd, hpc, hfun, hrd, calls, kicks>>
    /\ UNCHANGED ioVars

\* line 44: smp_call->func = func
smp_call_function_func(i) ==
    /\ Running(i)
    /\ cpc[i] = "func"
    /\ smp_call_info' = [smp_call_info EXCEPT ![ccur[i]].func = cfun[i]]
    /\ cpc' = [cpc EXCEPT ![i] = "data"]
    /\ UNCHANGED <<smp_call_mask, pcpu_active_bitmap, ipi, cmask, ccur, cfun,
                   crd, hpc, hfun, hrd, calls, kicks>>
    /\ UNCHANGED ioVars

\* line 45: smp_call->data = data
smp_call_function_data(i) ==
    /\ Running(i)
    /\ cpc[i] = "data"
    /\ smp_call_info' = [smp_call_info EXCEPT ![ccur[i]].data = cfun[i]]
    /\ LoopHead(i, cmask[i])
    /\ UNCHANGED <<smp_call_mask, pcpu_active_bitmap, ipi, cfun,
                   crd, hpc, hfun, hrd, calls, kicks>>
    /\ UNCHANGED ioVars

\* line 49: bitmap_clear_nolock(pcpu_id, &smp_call_mask) is an and on memory
\* without the lock prefix: a read, then a write of the value read with the
\* bit cleared; other cores' accesses may fall between the two.
smp_call_function_clear_read(i) ==
    /\ Running(i)
    /\ cpc[i] = "clr"
    /\ crd' = [crd EXCEPT ![i] = smp_call_mask]
    /\ cpc' = [cpc EXCEPT ![i] = "clrw"]
    /\ UNCHANGED <<smp_call_mask, pcpu_active_bitmap, smp_call_info, ipi, cmask,
                   ccur, cfun, hpc, hfun, hrd, calls, kicks>>
    /\ UNCHANGED ioVars

smp_call_function_clear_write(i) ==
    /\ Running(i)
    /\ cpc[i] = "clrw"
    /\ smp_call_mask' = crd[i] \ {ccur[i]}
    /\ LoopHead(i, cmask[i])
    /\ crd' = [crd EXCEPT ![i] = {}]
    /\ UNCHANGED <<pcpu_active_bitmap, smp_call_info, ipi, cfun,
                   hpc, hfun, hrd, calls, kicks>>
    /\ UNCHANGED ioVars

\* lines 52-53: send_dest_ipi(smp_call_mask, VECTOR_NOTIFY_VCPU, ...)
smp_call_function_ipi(i) ==
    /\ Running(i)
    /\ cpc[i] = "ipi"
    /\ ipi' = [c \in Cpus |-> ipi[c] \/ c \in smp_call_mask]
    /\ cpc' = [cpc EXCEPT ![i] = "wait"]
    /\ UNCHANGED <<smp_call_mask, pcpu_active_bitmap, smp_call_info, cmask, ccur,
                   cfun, crd, hpc, hfun, hrd, calls, kicks>>
    /\ UNCHANGED ioVars

\* line 55: wait_sync_change(&smp_call_mask, 0UL) returns once the mask is 0
smp_call_function_return(i) ==
    /\ Running(i)
    /\ cpc[i] = "wait"
    /\ smp_call_mask = {}
    /\ cpc' = [cpc EXCEPT ![i] = "idle"]
    /\ calls' = [calls EXCEPT ![cfun[i]].returned = TRUE]
    /\ cfun' = [cfun EXCEPT ![i] = NULL]
    /\ UNCHANGED <<smp_call_mask, pcpu_active_bitmap, smp_call_info, ipi, cmask,
                   ccur, crd, hpc, hfun, hrd, kicks>>
    /\ UNCHANGED ioVars

\* The notification vector is sent to core c for another reason (to kick it
\* out of non-root mode).
kick(c) ==
    /\ c \in pcpu_active_bitmap
    /\ kicks < MaxKicks
    /\ ~ipi[c]
    /\ ipi' = [ipi EXCEPT ![c] = TRUE]
    /\ kicks' = kicks + 1
    /\ UNCHANGED <<smp_call_mask, pcpu_active_bitmap, smp_call_info, cpc, cmask,
                   ccur, cfun, crd, hpc, hfun, hrd, calls>>
    /\ UNCHANGED ioVars

\* lines 19-21: the interrupt is taken on core c and the handler tests its
\* own bit of smp_call_mask.  An interrupt is taken between two instructions
\* of the interrupted code, never inside its and instruction.
kick_notification_test(c) ==
    /\ c \in pcpu_active_bitmap
    /\ hpc[c] = "idle"
    /\ cpc[c] # "clrw"
    /\ ipi[c]
    /\ ipi' = [ipi EXCEPT ![c] = FALSE]
    /\ hpc' = [hpc EXCEPT ![c] = IF c \in smp_call_mask THEN "func" ELSE "idle"]
    /\ UNCHANGED <<smp_call_mask, pcpu_active_bitmap, smp_call_info, cpc, cmask,
                   ccur, cfun, crd, hfun, hrd, calls, kicks>>
    /\ UNCHANGED ioVars

\* line 25: if (smp_call->func)
kick_notification_func(c) ==
    /\ hpc[c] = "func"
    /\ hfun' = [hfun EXCEPT ![c] = smp_call_info[c].func]
    /\ hpc' = [hpc EXCEPT ![c] =
                 IF smp_call_info[c].func # NULL THEN "data" ELSE "clr"]
    /\ UNCHANGED <<smp_call_mask, pcpu_active_bitmap, smp_call_info, ipi, cpc,
                   cmask, ccur, cfun, crd, hrd, calls, kicks>>
    /\ UNCHANGED ioVars

\* line 26: smp_call->func(smp_call->data) is entered with the data read now
kick_notification_invoke(c) ==
    /\ hpc[c] = "data"
    /\ calls' = [calls EXCEPT ![hfun[c]].ran[c] = @ + 1,
                              ![hfun[c]].badarg =
                                  @ \/ smp_call_info[c].data # hfun[c]]
    /\ hpc' = [hpc EXCEPT ![c] = "run"]
    /\ UNCHANGED <<smp_call_mask, pcpu_active_bitmap, smp_call_info, ipi, cpc,
                   cmask, ccur, cfun, crd, hfun, hrd, kicks>>
    /\ UNCHANGED ioVars

\* lines 26-27: the function returns, and bitmap_clear_nolock(pcpu_id,
\* &smp_call_mask) reads the mask
kick_notification_done(c) ==
    /\ hpc[c] = "run"
    /\ hpc' = [hpc EXCEPT ![c] = "clrw"]
    /\ hfun' = [hfun EXCEPT ![c] = NULL]
    /\ hrd' = [hrd EXCEPT ![c] = smp_call_mask]
    /\ UNCHANGED <<smp_call_mask, pcpu_active_bitmap, smp_call_info, ipi, cpc,
                   cmask, ccur, cfun, crd, calls, kicks>>
    /\ UNCHANGED ioVars

\* line 27: bitmap_clear_nolock reads the mask, no function having been run
kick_notification_clear_read(c) ==
    /\ hpc[c] = "clr"
    /\ hrd' = [hrd EXCEPT ![c] = smp_call_mask]
    /\ hpc' = [hpc EXCEPT ![c] = "clrw"]
    /\ UNCHANGED <<smp_call_mask, pcpu_active_bitmap, smp_call_info, ipi, cpc,
                   cmask, ccur, cfun, crd, hfun, calls, kicks>>
    /\ UNCHANGED ioVars

\* line 27: bitmap_clear_nolock writes the mask, and the handler returns
kick_notification_clear_write(c) ==
    /\ hpc[c] = "clrw"
    /\ smp_call_mask' = hrd[c] \ {c}
    /\ hpc' = [hpc EXCEPT ![c] = "idle"]
    /\ hrd' = [hrd EXCEPT ![c] = {}]
    /\ UNCHANGED <<pcpu_active_bitmap, smp_call_info, ipi, cpc, cmask, ccur,
                   cfun, crd, hfun, calls, kicks>>
    /\ UNCHANGED ioVars

(***************************************************************************)
(* io.c: values.  A machine word is the set of the positions of its set    *)
(* bits, so that masks and shifts are computed as the code computes them.  *)
(***************************************************************************)

Bits(n, w) == {i \in 0 .. (w - 1) : i < 31 /\ (n \div (2 ^ i)) % 2 = 1}
Ones(w) == 0 .. (w - 1)
\* x >> n
Shr(x, n) == {i - n : i \in {j \in x : j >= n}}
\* x & y, x | y, and ~x of a w-bit x
And(x, y) == x \cap y
Or(x, y) == x \cup y
Not(x, w) == (0 .. (w - 1)) \ x
\* (uint32_t)x and (uint64_t)x: the bits of x a w-bit word holds
Cast(x, w) == {i \in x : i < w}

\* error numbers and the request states, as the code names them
ENODEV == 19
EIO == 5
EINVAL == 22
IOREQ_PENDING == 1

(***************************************************************************)
(* Inputs of the model.                                                    *)
(***************************************************************************)
\* port handlers registered in one behaviour
MaxHandlers == 2
\* MMIO handlers registered in one behaviour
MaxMmio == 1
\* guest accesses (VM exits) handled in one behaviour
MaxExits == 1
\* calls of allow_guest_io_access in one behaviour
MaxAllow == 1

\* the port ranges devices are registered with: <<base, len>>
PortRanges == {<<96, 4>>, <<98, 4>>, <<65532, 4>>}
\* the ports and widths the guest accesses
GuestPorts == {96, 99, 1016, 65530, 65532}
\* VM_EXIT_IO_INSTRUCTION_SIZE: the access is 1, 2 or 4 bytes wide
SizeFields == {0, 1, 3}
\* the MMIO ranges devices are registered with: <<start, end>>
MmioRanges == {<<4096, 8192>>, <<6144, 6400>>, <<8192, 8192>>}
\* the guest-physical addresses the guest accesses, 4 bytes wide
GuestAddrs == {6144, 6398, 8190, 12288}
MmioSizes == {4}
\* what a device's read callback, or the device model, returns
ReadValues == {Bits(171, 32), Bits(305419896, 32)}
\* guest RAX when the guest starts
RaxValues == {{i \in 0 .. 63 : i % 2 = 0}}
\* ranges given to allow_guest_io_access and deny_guest_io_access
AccessRanges == {<<96, 4>>, <<32766, 4>>, <<32768, 2>>, <<65532, 4>>, <<65534, 4>>}

(***************************************************************************)
(* io.c: the port access bitmaps.  A page is kept as the byte memset       *)
(* filled it with and the words written since; a word is the set of its    *)
(* set bit positions.                                                      *)
(***************************************************************************)
Unallocated == "unallocated"

\* memset(page, 0x00 or 0xFF, CPU_PAGE_SIZE): every bit of every word
FilledPage(allOnes) == [fill |-> IF allOnes THEN 0 .. 31 ELSE {}, w |-> [j \in {} |-> {}]]

\* b[idx]
Word(page, idx) == IF idx \in DOMAIN page.w THEN page.w[idx] ELSE page.fill

\* b[idx] = v
SetWord(page, idx, v) ==
    [page EXCEPT !.w =
        IF v = page.fill
        THEN [j \in (DOMAIN page.w) \ {idx} |-> page.w[j]]
        ELSE [j \in (DOMAIN page.w) \cup {idx} |-> IF j = idx THEN v ELSE page.w[j]]]

\* lines 454-471
setup_io_bitmap_pages(vm0) ==
    IF vm0 THEN <<FilledPage(FALSE), FilledPage(FALSE)>>
    ELSE <<FilledPage(TRUE), FilledPage(TRUE)>>

\* lines 404-412: the loop of allow_guest_io_access from its i-th round on.
\* b is the index of the page b points to; it moves to page 1 at the first
\* address with bit 0x8000 set and is never moved back.
RECURSIVE allow_loop(_, _, _, _, _)
allow_loop(bm, b, address, i, nbytes) ==
    IF i >= nbytes THEN bm
    ELSE LET b1 == IF (address \div 32768) % 2 # 0 THEN 2 ELSE b
             a == address % 32768
             v == Word(bm[b1], a \div 32) \ {a % 32}
         IN  allow_loop([bm EXCEPT ![b1] = SetWord(bm[b1], a \div 32, v)],
                        b1, address + 1, i + 1, nbytes)

\* lines 397-413
allow_guest_io_access_bm(bm, address_arg, nbytes) ==
    allow_loop(bm, 1, address_arg, 0, nbytes)

\* lines 422-430: the loop of deny_guest_io_access
RECURSIVE deny_loop(_, _, _, _, _)
deny_loop(bm, b, address, i, nbytes) ==
    IF i >= nbytes THEN bm
    ELSE LET b1 == IF (address \div 32768) % 2 # 0 THEN 2 ELSE b
             a == address % 32768
             v == Word(bm[b1], a \div 32) \cup {a % 32}
         IN  deny_loop([bm EXCEPT ![b1] = SetWord(bm[b1], a \div 32, v)],
                       b1, address + 1, i + 1, nbytes)

\* deny_guest_io_access with b never moved to bitmap B
deny_guest_io_access_page_a(bm, address_arg, nbytes) ==
    deny_loop(bm, 1, address_arg % 32768, 0, nbytes)

\* lines 415-431
deny_guest_io_access_bm(bm, address_arg, nbytes) ==
    deny_loop(bm, 1, address_arg, 0, nbytes)

\* What the processor does with the bitmaps: bitmap A holds ports 0x0000 to
\* 0x7FFF, bitmap B ports 0x8000 to 0xFFFF, one bit per port; an access to a
\* port whose bit is set exits to the hypervisor.
Trapped(bm, port) ==
    (port % 32768) % 32 \in Word(bm[IF port >= 32768 THEN 2 ELSE 1], (port % 32768) \div 32)

(***************************************************************************)
(* io.c: the handler registry.                                             *)
(***************************************************************************)
\* virtual cores of the machine: ids 0 .. NumVcpus-1 (vm->hw.created_vcpus)
NumVcpus == 2
Vcpus == 0 .. (NumVcpus - 1)

Allocated == iobitmap # Unallocated

\* lines 433-452: the node create_io_handler fills in; fn names the pair of
\* callbacks (io_read, io_write) of the device
create_io_handler(port, len, fn) == [addr |-> port, len |-> len, fn |-> fn]

\* lines 366-373: the new node becomes the head of the list
register_io_handler(list, hdlr) == <<hdlr>> \o list

\* lines 454-471
setup_io_bitmap ==
    /\ ~Allocated
    /\ iobitmap' = setup_io_bitmap_pages(is_vm0)
    /\ last' = <<>>
    /\ UNCHANGED <<is_vm0, partition_mode, io_handler, mmio_list, launched,
                   vstate, req, rax, prework, vhm_req, writer, invoked, status, nops>>
    /\ UNCHANGED notifyVars

\* the bitmap operations done last, each with the bitmaps it started from
Logged(op, base, n) ==
    (IF last = <<>> THEN <<>> ELSE <<last[Len(last)]>>)
        \o <<[op |-> op, base |-> base, n |-> n, bm |-> iobitmap]>>

\* lines 397-413
allow_guest_io_access(address_arg, nbytes) ==
    /\ Allocated
    /\ nops.allows < MaxAllow
    /\ iobitmap' = allow_guest_io_access_bm(iobitmap, address_arg, nbytes)
    /\ last' = Logged("allow", address_arg, nbytes)
    /\ nops' = [nops EXCEPT !.allows = @ + 1]
    /\ UNCHANGED <<is_vm0, partition_mode, io_handler, mmio_list, launched,
                   vstate, req, rax, prework, vhm_req, writer, invoked, status>>
    /\ UNCHANGED notifyVars

\* lines 473-492.  rd and wr tell whether the callbacks given are non-null.
register_io_emulation_handler(base, len, rd, wr) ==
    /\ Len(io_handler) < MaxHandlers
    /\ is_vm0 => Allocated
    /\ IF ~rd \/ ~wr
       THEN UNCHANGED <<iobitmap, io_handler, last>>
       ELSE /\ IF is_vm0
               THEN /\ iobitmap' = deny_guest_io_access_bm(iobitmap, base, len)
                    /\ last' = Logged("deny", base, len)
               ELSE UNCHANGED <<iobitmap, last>>
            /\ io_handler' = register_io_handler(io_handler,
                                 create_io_handler(base, len, Len(io_handler) + 1))
    /\ UNCHANGED <<is_vm0, partition_mode, mmio_list, launched,
                   vstate, req, rax, prework, vhm_req, writer, invoked, status, nops>>
    /\ UNCHANGED notifyVars

\* lines 494-542.  rw tells whether read_write is non-null; list_add links
\* the node right after the list head.
register_mmio_emulation_handler(start, end, rw) ==
    /\ Len(mmio_list) < MaxMmio
    /\ IF NumVcpus > 0 /\ launched[0]
       THEN /\ status' = [op |-> "register_mmio", ret |-> -EINVAL]
            /\ UNCHANGED mmio_list
       ELSE IF rw /\ end > start
       THEN /\ mmio_list' = <<[range_start |-> start, range_end |-> end,
                                fn |-> Len(mmio_list) + 1]>> \o mmio_list
            /\ status' = [op |-> "register_mmio", ret |-> 0]
       ELSE /\ status' = [op |-> "register_mmio", ret |-> -EINVAL]
            /\ UNCHANGED mmio_list
    /\ UNCHANGED <<is_vm0, partition_mode, iobitmap, io_handler, launched,
                   vstate, req, rax, prework, vhm_req, writer, invoked,
                   last, nops>>
    /\ UNCHANGED notifyVars

\* a virtual core of the machine starts running
launch_vcpu(v) ==
    /\ ~launched[v]
    /\ launched' = [launched EXCEPT ![v] = TRUE]
    /\ UNCHANGED <<is_vm0, partition_mode, iobitmap, io_handler, mmio_list,
                   vstate, req, rax, prework, vhm_req, writer, invoked, status,
                   last, nops>>
    /\ UNCHANGED notifyVars

\* lines 473-492 when calloc (line 440) returns NULL: create_io_handler
\* returns NULL and register_io_handler is called with hdlr = NULL.  With a
\* non-empty list line 369 stores through the null pointer, which is
\* undefined: either the store faults and the hypervisor stops there
\* (faults), or it lands in whatever is mapped at address 0 and line 372
\* goes on to set the list head to NULL.  With an empty list only line 372
\* runs.
register_io_emulation_handler_nomem(base, len, faults) ==
    /\ is_vm0 => Allocated
    /\ IF is_vm0
       THEN /\ iobitmap' = deny_guest_io_access_bm(iobitmap, base, len)
            /\ last' = Logged("deny", base, len)
       ELSE UNCHANGED <<iobitmap, last>>
    /\ IF io_handler # <<>> /\ faults
       THEN /\ status' = [op |-> "fault"]
            /\ UNCHANGED io_handler
       ELSE /\ status' = [op |-> "nomem"]
            /\ io_handler' = <<>>
    /\ UNCHANGED <<is_vm0, partition_mode, mmio_list, launched,
                   vstate, req, rax, prework, vhm_req, writer, invoked, nops>>
    /\ UNCHANGED notifyVars

(***************************************************************************)
(* io.c: dispatch.                                                         *)
(***************************************************************************)
\* lines 190-219: the scan of the port handler list from its k-th node on;
\* hit is the node whose callback is invoked, 0 when none is.  port, size,
\* base and end are uint16_t.
RECURSIVE pio_scan(_, _, _, _)
pio_scan(list, k, port, size) ==
    IF k > Len(list) THEN [status |-> -ENODEV, hit |-> 0]
    ELSE LET base == list[k].addr % 65536
             end == (base + (list[k].len % 65536)) % 65536
         IN  IF port >= end \/ port + size <= base
             THEN pio_scan(list, k + 1, port, size)
             ELSE IF ~(port >= base /\ port + size <= end)
             THEN [status |-> -EIO, hit |-> 0]
             ELSE [status |-> 0, hit |-> k]

\* lines 176-222.  rv is what the io_read callback returns.
hv_emulate_pio(list, io_req, rv) ==
    LET port == io_req.address % 65536
        size == io_req.size % 65536
        mask == Shr(Ones(32), 32 - 8 * size)
        s == pio_scan(list, 1, port, size)
    IN  IF s.hit = 0
        THEN [status |-> s.status, req |-> io_req, invoked |-> <<>>]
        ELSE IF io_req.direction = "WRITE"
        THEN [status |-> 0, req |-> io_req,
              invoked |-> <<[fn |-> list[s.hit].fn, op |-> "write",
                             value |-> And(io_req.value, mask)]>>]
        ELSE [status |-> 0, req |-> [io_req EXCEPT !.value = rv],
              invoked |-> <<[fn |-> list[s.hit].fn, op |-> "read",
                             value |-> rv]>>]

\* lines 246-265: the scan of the MMIO list from its k-th node on
RECURSIVE mmio_scan(_, _, _, _)
mmio_scan(list, k, address, size) ==
    IF k > Len(list) THEN [status |-> -ENODEV, hit |-> 0]
    ELSE LET base == list[k].range_start
             end == list[k].range_end
         IN  IF address + size <= base \/ address >= end
             THEN mmio_scan(list, k + 1, address, size)
             ELSE IF ~(address >= base /\ address + size <= end)
             THEN [status |-> -EIO, hit |-> 0]
             ELSE [status |-> 0, hit |-> k]

\* lines 234-268.  The read_write callback moves the bytes: on a read it
\* fills in the request's value (rv), and it returns 0.
hv_emulate_mmio(list, io_req, rv) ==
    LET s == mmio_scan(list, 1, io_req.address, io_req.size)
    IN  IF s.hit = 0
        THEN [status |-> s.status, req |-> io_req, invoked |-> <<>>]
        ELSE [status |-> 0,
              req |-> IF io_req.direction = "READ"
                      THEN [io_req EXCEPT !.value = rv] ELSE io_req,
              invoked |-> <<[fn |-> list[s.hit].fn, op |-> "read_write",
                             value |-> IF io_req.direction = "READ"
                                       THEN rv ELSE io_req.value]>>]

\* io_instr_dest_handler without its store of 0xFFFFFFFF
io_instr_dest_handler_no_store(io_req) == [io_req EXCEPT !.processed = "COMPLETE"]

\* lines 106-116
io_instr_dest_handler(io_req) ==
    [io_req EXCEPT !.value = IF io_req.direction = "READ" THEN Ones(32) ELSE @,
                   !.processed = "COMPLETE"]

\* acrn_insert_request_wait: the request is copied into the virtual core's
\* shared slot, the slot is marked valid and PENDING, the device model is
\* signalled and the virtual core is suspended.
acrn_insert_request_wait(slot, io_req) ==
    [valid |-> 1, processed |-> "PENDING", type |-> io_req.type,
     direction |-> io_req.direction, address |-> io_req.address,
     size |-> io_req.size, value |-> io_req.value]

\* lines 284-296
emulate_io_dispatch(io_req, rv) ==
    CASE io_req.type = "REQ_PORTIO" -> hv_emulate_pio(io_handler, io_req, rv)
      [] io_req.type \in {"REQ_MMIO", "REQ_WP"} ->
             hv_emulate_mmio(mmio_list, io_req, rv)
      [] OTHER -> [status |-> -EINVAL, req |-> io_req, invoked |-> <<>>]

\* a test of line 298 that also takes the spanning error
NoHandlerOrSpanning(st) == st \in {-ENODEV, -EIO}

\* line 298
NoHandler(st) == st = -ENODEV

\* lines 279-327.  inserted tells whether acrn_insert_request_wait succeeds.
\* dispatch is the status the handlers' scan gave, handoff whether the
\* request was published to the shared slot.
emulate_io(io_req, rv, inserted) ==
    LET d == emulate_io_dispatch(io_req, rv)
    IN  IF NoHandler(d.status)
        THEN IF partition_mode
             THEN [dispatch |-> d.status, status |-> 0,
                   req |-> io_instr_dest_handler(d.req),
                   invoked |-> d.invoked, handoff |-> FALSE]
             ELSE IF inserted
             THEN [dispatch |-> d.status, status |-> IOREQ_PENDING, req |-> d.req,
                   invoked |-> d.invoked, handoff |-> TRUE]
             ELSE [dispatch |-> d.status, status |-> -EINVAL, req |-> d.req,
                   invoked |-> d.invoked, handoff |-> FALSE]
        ELSE [dispatch |-> d.status, status |-> d.status, req |-> d.req,
              invoked |-> d.invoked, handoff |-> FALSE]

\* emulate_pio_post without the mask of line 28
emulate_pio_post_unmasked(rax0, io_req) ==
    IF io_req.direction = "READ" THEN Cast(io_req.value, 64) ELSE rax0

\* lines 24-37
emulate_pio_post(rax0, io_req) ==
    LET mask == Shr(Cast(Ones(32), 64), 32 - 8 * io_req.size)
    IN  IF io_req.direction = "READ"
        THEN Or(And(rax0, Not(mask, 64)), And(Cast(io_req.value, 64), mask))
        ELSE rax0

\* lines 11-15
complete_ioreq(slot) == [slot EXCEPT !.valid = 0, !.processed = "FREE"]

\* the virtual core is in the guest: it has been launched, is not paused
\* and has no work to do before it enters the guest again
InGuest == launched[0] /\ vstate = "running" /\ ~prework

\* lines 329-364.  size_field, port and direction are the fields of the exit
\* qualification the VM_EXIT_IO_INSTRUCTION macros extract.
pio_instr_vmexit_handler(size_field, port, direction, rv, inserted) ==
    /\ InGuest
    /\ nops.exits < MaxExits
    /\ LET r0 == [req EXCEPT !.type = "REQ_PORTIO",
                             !.size = size_field + 1,
                             !.address = port,
                             !.direction = direction,
                             !.value = IF direction = "WRITE"
                                       THEN Cast(rax, 32) ELSE @]
           e == emulate_io(r0, rv, inserted)
       IN  /\ req' = e.req
           /\ rax' = IF e.status = 0 THEN emulate_pio_post(rax, e.req) ELSE rax
           /\ invoked' = e.invoked
           /\ vhm_req' = IF e.handoff
                         THEN acrn_insert_request_wait(vhm_req, e.req) ELSE vhm_req
           /\ vstate' = IF e.handoff THEN "paused" ELSE vstate
           /\ writer' = IF e.handoff THEN "hv" ELSE writer
           /\ status' = [op |-> "pio", dispatch |-> e.dispatch, emulate |-> e.status,
                         ret |-> IF e.status = IOREQ_PENDING THEN 0 ELSE e.status]
    /\ nops' = [nops EXCEPT !.exits = @ + 1]
    /\ UNCHANGED <<is_vm0, partition_mode, iobitmap, io_handler, mmio_list,
                   launched, prework, last>>
    /\ UNCHANGED notifyVars

\* emulate_io is called for a guest access to memory (type REQ_MMIO) or for
\* a write-protection fault (type REQ_WP, a write).
emulate_io_mmio(type, address, size, direction, rv, inserted) ==
    /\ InGuest
    /\ nops.exits < MaxExits
    /\ type = "REQ_WP" => direction = "WRITE"
    /\ LET r0 == [req EXCEPT !.type = type, !.size = size, !.address = address,
                             !.direction = direction,
                             !.value = IF direction = "WRITE"
                                       THEN Cast(rax, 32) ELSE @]
           e == emulate_io(r0, rv, inserted)
       IN  /\ req' = e.req
           /\ invoked' = e.invoked
           /\ vhm_req' = IF e.handoff
                         THEN acrn_insert_request_wait(vhm_req, e.req) ELSE vhm_req
           /\ vstate' = IF e.handoff THEN "paused" ELSE vstate
           /\ writer' = IF e.handoff THEN "hv" ELSE writer
           /\ status' = [op |-> "mmio", dispatch |-> e.dispatch, emulate |-> e.status,
                         ret |-> e.status]
    /\ nops' = [nops EXCEPT !.exits = @ + 1]
    /\ UNCHANGED <<is_vm0, partition_mode, iobitmap, io_handler, mmio_list,
                   launched, rax, prework, last>>
    /\ UNCHANGED notifyVars

(***************************************************************************)
(* The device model, the other side of the shared slot.                    *)
(***************************************************************************)
dm_take ==
    /\ vhm_req.valid = 1
    /\ vhm_req.processed = "PENDING"
    /\ vhm_req' = [vhm_req EXCEPT !.processed = "PROCESSING"]
    /\ writer' = "dm"
    /\ UNCHANGED <<is_vm0, partition_mode, iobitmap, io_handler, mmio_list,
                   launched, vstate, req, rax, prework, invoked, status, last, nops>>
    /\ UNCHANGED notifyVars

dm_complete(rv) ==
    /\ vhm_req.valid = 1
    /\ vhm_req.processed = "PROCESSING"
    /\ vhm_req' = [vhm_req EXCEPT !.processed = "COMPLETE",
                                  !.value = IF vhm_req.direction = "READ"
                                            THEN rv ELSE @]
    /\ writer' = "dm"
    /\ UNCHANGED <<is_vm0, partition_mode, iobitmap, io_handler, mmio_list,
                   launched, vstate, req, rax, prework, invoked, status, last, nops>>
    /\ UNCHANGED notifyVars

(***************************************************************************)
(* io.c: completion.                                                       *)
(***************************************************************************)
\* resume_vcpu: a paused virtual core runs again
resume_vcpu(s) == IF s = "paused" THEN "running" ELSE s

\* a test of lines 126-127 that leaves out the slot's marker
NotValid(slot) == slot.valid = 0

\* a test of lines 126-127 that never finds the request pending
NeverPending(slot) == FALSE

\* lines 126-127
NotCompleted(slot) == slot.valid = 0 \/ slot.processed # "COMPLETE"

\* a test of line 135 that never finds the virtual core a zombie
NeverZombie(s) == FALSE

\* line 135
IsZombie(s) == s = "zombie"

\* lines 118-164
emulate_io_post ==
    /\ IF NotCompleted(vhm_req)
       THEN UNCHANGED <<vhm_req, writer, req, rax, prework, vstate>>
       ELSE IF IsZombie(vstate)
       THEN /\ vhm_req' = complete_ioreq(vhm_req)
            /\ writer' = "hv"
            /\ UNCHANGED <<req, rax, prework, vstate>>
       ELSE /\ CASE req.type = "REQ_MMIO" ->
                      /\ prework' = TRUE
                      /\ UNCHANGED <<vhm_req, writer, req, rax>>
                 [] req.type \in {"REQ_PORTIO", "REQ_PCICFG"} ->
                      \* lines 45-62: dm_emulate_pio_post
                      /\ req' = [req EXCEPT !.value = vhm_req.value]
                      /\ vhm_req' = complete_ioreq(vhm_req)
                      /\ writer' = "hv"
                      /\ rax' = emulate_pio_post(rax, req')
                      /\ UNCHANGED prework
                 [] OTHER ->
                      /\ vhm_req' = complete_ioreq(vhm_req)
                      /\ writer' = "hv"
                      /\ UNCHANGED <<req, rax, prework>>
            /\ vstate' = resume_vcpu(vstate)
    /\ status' = [op |-> "post"]
    /\ UNCHANGED <<is_vm0, partition_mode, iobitmap, io_handler, mmio_list,
                   launched, invoked, last, nops>>
    /\ UNCHANGED notifyVars

\* lines 87-104: dm_emulate_mmio_post, the work ACRN_VCPU_MMIO_COMPLETE asks
\* the virtual core to do before it enters the guest again
dm_emulate_mmio_post ==
    /\ prework
    /\ vstate = "running"
    /\ req' = [req EXCEPT !.value = vhm_req.value]
    /\ vhm_req' = complete_ioreq(vhm_req)
    /\ writer' = "hv"
    /\ prework' = FALSE
    /\ status' = [op |-> "mmio_post"]
    /\ UNCHANGED <<is_vm0, partition_mode, iobitmap, io_handler, mmio_list,
                   launched, vstate, rax, invoked, last, nops>>
    /\ UNCHANGED notifyVars

\* the virtual core is being torn down
vcpu_zombie ==
    /\ vstate # "zombie"
    /\ vstate' = "zombie"
    /\ UNCHANGED <<is_vm0, partition_mode, iobitmap, io_handler, mmio_list,
                   launched, req, rax, prework, vhm_req, writer, invoked, status,
                   last, nops>>
    /\ UNCHANGED notifyVars

\* the scan of unregister_mmio_emulation_handler with a compare that never
\* stops at its first match
RECURSIVE unregister_scan_all(_, _, _, _)
unregister_scan_all(list, k, start, end) ==
    IF k > Len(list) THEN list
    ELSE IF list[k].range_start = start /\ list[k].range_end = end
    THEN unregister_scan_all(SubSeq(list, 1, k - 1) \o SubSeq(list, k + 1, Len(list)),
                             k, start, end)
    ELSE unregister_scan_all(list, k + 1, start, end)

\* lines 550-560: the walk of the MMIO list from its k-th node on;
\* list_del_init unlinks the node and the break ends the walk
RECURSIVE unregister_scan(_, _, _, _)
unregister_scan(list, k, start, end) ==
    IF k > Len(list) THEN list
    ELSE IF list[k].range_start = start /\ list[k].range_end = end
    THEN SubSeq(list, 1, k - 1) \o SubSeq(list, k + 1, Len(list))
    ELSE unregister_scan(list, k + 1, start, end)

\* lines 544-561
unregister_mmio_emulation_handler(start, end) ==
    /\ mmio_list' = unregister_scan(mmio_list, 1, start, end)
    /\ status' = [op |-> "unregister", start |-> start, end |-> end]
    /\ UNCHANGED <<is_vm0, partition_mode, iobitmap, io_handler, launched,
                   vstate, req, rax, prework, vhm_req, writer, invoked,
                   last, nops>>
    /\ UNCHANGED notifyVars

(***************************************************************************)
(* Specifications.                                                         *)
(***************************************************************************)
FreeSlot == [valid |-> 0, processed |-> "FREE", type |-> "REQ_PORTIO",
             direction |-> "READ", address |-> 0, size |-> 0,
             value |-> Bits(0, 32)]

NoRequest == [type |-> "REQ_PORTIO", direction |-> "READ", address |-> 0,
              size |-> 0, value |-> Bits(0, 32), processed |-> "FREE"]

\* the machine as create_vm leaves it, before its I/O bitmaps are set up
IoStart ==
    /\ is_vm0 \in BOOLEAN
    /\ partition_mode \in BOOLEAN
    /\ iobitmap = Unallocated
    /\ io_handler = <<>>
    /\ mmio_list = <<>>
    /\ launched = [v \in Vcpus |-> FALSE]
    /\ vstate = "running"
    /\ req = NoRequest
    /\ rax \in RaxValues
    /\ prework = FALSE
    /\ vhm_req = FreeSlot
    /\ writer = "none"
    /\ invoked = <<>>
    /\ status = [op |-> "none"]
    /\ last = <<>>
    /\ nops = [exits |-> 0, allows |-> 0]

\* the machine, no guest of which has been created, while remote calls run
IoQuiet ==
    /\ is_vm0 = TRUE
    /\ partition_mode = FALSE
    /\ iobitmap = Unallocated
    /\ io_handler = <<>>
    /\ mmio_list = <<>>
    /\ launched = [v \in Vcpus |-> FALSE]
    /\ vstate = "running"
    /\ req = NoRequest
    /\ rax = {}
    /\ prework = FALSE
    /\ vhm_req = FreeSlot
    /\ writer = "none"
    /\ invoked = <<>>
    /\ status = [op |-> "none"]
    /\ last = <<>>
    /\ nops = [exits |-> 0, allows |-> 0]

\* the cores, none of which issues a remote call, while the machine runs
NotifyQuiet ==
    /\ smp_call_mask = {}
    /\ pcpu_active_bitmap = Cpus
    /\ smp_call_info = [c \in Cpus |-> NoCall]
    /\ ipi = [c \in Cpus |-> FALSE]
    /\ cpc = [c \in Cpus |-> "idle"]
    /\ cmask = [c \in Cpus |-> {}]
    /\ ccur = [c \in Cpus |-> 0]
    /\ cfun = [c \in Cpus |-> NULL]
    /\ crd = [c \in Cpus |-> {}]
    /\ hpc = [c \in Cpus |-> "idle"]
    /\ hfun = [c \in Cpus |-> NULL]
    /\ hrd = [c \in Cpus |-> {}]
    /\ calls = <<>>
    /\ kicks = 0

InitNotify == NotifyStart /\ IoQuiet

InitIo == NotifyQuiet /\ IoStart

NextIo ==
    \/ setup_io_bitmap
    \/ \E r \in PortRanges, rd, wr \in BOOLEAN :
           register_io_emulation_handler(r[1], r[2], rd, wr)
    \/ \E r \in MmioRanges, rw \in BOOLEAN :
           register_mmio_emulation_handler(r[1], r[2], rw)
    \/ \E v \in Vcpus : launch_vcpu(v)
    \/ \E sf \in SizeFields, p \in GuestPorts, d \in {"READ", "WRITE"},
          rv \in ReadValues, ok \in BOOLEAN :
           pio_instr_vmexit_handler(sf, p, d, rv, ok)
    \/ \E t \in {"REQ_MMIO", "REQ_WP"}, a \in GuestAddrs, s \in MmioSizes,
          d \in {"READ", "WRITE"}, rv \in ReadValues, ok \in BOOLEAN :
           emulate_io_mmio(t, a, s, d, rv, ok)
    \/ dm_take
    \/ \E rv \in ReadValues : dm_complete(rv)
    \/ emulate_io_post
    \/ dm_emulate_mmio_post
    \/ vcpu_zombie

SpecIo == InitIo /\ [][NextIo]_vars

NextBitmap ==
    \/ setup_io_bitmap
    \/ \E r \in AccessRanges : allow_guest_io_access(r[1], r[2])
    \/ \E r \in AccessRanges, rd, wr \in BOOLEAN :
           register_io_emulation_handler(r[1], r[2], rd, wr)

SpecBitmap == InitIo /\ [][NextBitmap]_vars

\* the hypervisor has not stopped on a fault
Alive == status.op # "fault"

NextAlloc ==
    \/ Alive /\ setup_io_bitmap
    \/ Alive /\ \E r \in PortRanges : register_io_emulation_handler(r[1], r[2], TRUE, TRUE)
    \/ Alive /\ \E r \in PortRanges, f \in BOOLEAN :
                    register_io_emulation_handler_nomem(r[1], r[2], f)
    \/ Alive /\ \E v \in Vcpus : launch_vcpu(v)
    \/ Alive /\ \E sf \in SizeFields, p \in GuestPorts, d \in {"READ", "WRITE"},
                   rv \in ReadValues, ok \in BOOLEAN :
                    pio_instr_vmexit_handler(sf, p, d, rv, ok)

SpecAlloc == InitIo /\ [][NextAlloc]_vars


\* the most nodes the MMIO list holds when unregistration starts
MaxNodes == 3

\* the ranges register_mmio_emulation_handler accepts (line 507)
ValidMmioRanges == {r \in MmioRanges : r[2] > r[1]}

\* the ranges unregistration is asked for: the registered ones, and ranges
\* that share only the start, only the end, or neither with them
UnregisterRanges ==
    ValidMmioRanges \cup {<<4096, 6400>>, <<6144, 8192>>, <<4352, 6144>>}

\* the list that registering the ranges rs, last one first, builds before
\* the machine is launched: list_add links each new node at the head
Registered(rs) ==
    [i \in 1..Len(rs) |-> [range_start |-> rs[i][1], range_end |-> rs[i][2],
                           fn |-> Len(rs) + 1 - i]]

\* the machine with its MMIO handlers registered
MmioStart ==
    /\ is_vm0 \in BOOLEAN
    /\ partition_mode = FALSE
    /\ iobitmap = Unallocated
    /\ io_handler = <<>>
    /\ mmio_list \in {Registered(rs) :
                        rs \in UNION {[1..n -> ValidMmioRanges] : n \in 0..MaxNodes}}
    /\ launched = [v \in Vcpus |-> FALSE]
    /\ vstate = "running"
    /\ req = NoRequest
    /\ rax = {}
    /\ prework = FALSE
    /\ vhm_req = FreeSlot
    /\ writer = "none"
    /\ invoked = <<>>
    /\ status = [op |-> "none"]
    /\ last = <<>>
    /\ nops = [exits |-> 0, allows |-> 0]

InitMmio == NotifyQuiet /\ MmioStart

NextMmio ==
    \/ \E r \in UnregisterRanges : unregister_mmio_emulation_handler(r[1], r[2])
    \/ \E r \in MmioRanges, rw \in BOOLEAN :
           register_mmio_emulation_handler(r[1], r[2], rw)
    \/ \E v \in Vcpus : launch_vcpu(v)

SpecMmio == InitMmio /\ [][NextMmio]_vars
NextNotify ==
    \/ \E i \in Cpus, mask \in SUBSET Cpus : smp_call_function_enter(i, mask)
    \/ \E i \in Cpus : smp_call_function_claim(i)
    \/ \E i \in Cpus : smp_call_function_func(i)
    \/ \E i \in Cpus : smp_call_function_data(i)
    \/ \E i \in Cpus : smp_call_function_clear_read(i)
    \/ \E i \in Cpus : smp_call_function_clear_write(i)
    \/ \E i \in Cpus : smp_call_function_ipi(i)
    \/ \E i \in Cpus : smp_call_function_return(i)
    \/ \E c \in Cpus : kick(c)
    \/ \E c \in Cpus : kick_notification_test(c)
    \/ \E c \in Cpus : kick_notification_func(c)
    \/ \E c \in Cpus : kick_notification_invoke(c)
    \/ \E c \in Cpus : kick_notification_done(c)
    \/ \E c \in Cpus : kick_notification_clear_read(c)
    \/ \E c \in Cpus : kick_notification_clear_write(c)

SpecNotify == InitNotify /\ [][NextNotify]_vars

\* The remote call alone: no notification interrupt is sent for another
\* reason.  Every core keeps executing (the initiator's loops, the handler
\* once its interrupt is pending), and every interrupt sent is delivered.
CallerStep(i) ==
    \/ smp_call_function_claim(i)
    \/ smp_call_function_func(i)
    \/ smp_call_function_data(i)
    \/ smp_call_function_clear_read(i)
    \/ smp_call_function_clear_write(i)
    \/ smp_call_function_ipi(i)
    \/ smp_call_function_return(i)

HandlerStep(c) ==
    \/ kick_notification_test(c)
    \/ kick_notification_func(c)
    \/ kick_notification_invoke(c)
    \/ kick_notification_done(c)
    \/ kick_notification_clear_read(c)
    \/ kick_notification_clear_write(c)

NextRemoteCall ==
    \/ \E i \in Cpus, mask \in SUBSET Cpus : smp_call_function_enter(i, mask)
    \/ \E i \in Cpus : CallerStep(i)
    \/ \E c \in Cpus : HandlerStep(c)

FairSpecNotify ==
    /\ InitNotify
    /\ [][NextRemoteCall]_vars
    /\ \A i \in Cpus : WF_vars(CallerStep(i))
    /\ \A c \in Cpus : WF_vars(HandlerStep(c))

(***************************************************************************)
(* Properties of notify.c.                                                 *)
(***************************************************************************)

\* C1: for every call issued, every active core of its mask invokes the
\* call's function exactly once (never twice, and once by the time the call
\* has returned), and an inactive core of its mask never invokes it.
C1_ExactlyOnce ==
    \A k \in DOMAIN calls : \A c \in calls[k].mask :
        /\ calls[k].ran[c] <= 1
        /\ c \notin pcpu_active_bitmap => calls[k].ran[c] = 0
        /\ (calls[k].returned /\ c \in pcpu_active_bitmap) => calls[k].ran[c] = 1

\* C2: a call that has returned has been run to completion by every active
\* core of its mask, and a core's bit of smp_call_mask is set for as long
\* as the core is inside the function.
C2_Synchronous ==
    /\ \A k \in DOMAIN calls : \A c \in calls[k].mask \cap pcpu_active_bitmap :
           calls[k].returned =>
               /\ calls[k].ran[c] >= 1
               /\ ~(hpc[c] = "run" /\ hfun[c] = FuncOf(k))
    /\ \A c \in Cpus : hpc[c] = "run" => c \in smp_call_mask

\* C3: every call to smp_call_function eventually returns.
C3_EveryCallReturns ==
    \A i \in Cpus : (cpc[i] # "idle") ~> (cpc[i] = "idle")

\* C4: at most one remote call is in flight: two initiators are never both
\* between their claim of smp_call_mask and the end of their loop of stores
\* into the per-core slots.
C4_OneCallInFlight ==
    \A i, j \in Cpus :
        (cpc[i] \in {"func", "data"} /\ cpc[j] \in {"func", "data"}) => i = j

(***************************************************************************)
(* Properties of io.c.                                                     *)
(***************************************************************************)
\* the step is a run of pio_instr_vmexit_handler
PioExit == nops'.exits = nops.exits + 1 /\ status'.op = "pio"

\* the step is a dispatch of a port or of a memory access
AnyExit == nops'.exits = nops.exits + 1

\* [first, first + n) and [port, port + size), as sets of addresses
Overlaps(first, n, port, size) == port < first + n /\ first < port + size
Contained(first, n, port, size) == first <= port /\ port + size <= first + n

\* the edges of the slot's cycle
SlotEdges == {<<"FREE", "PENDING">>, <<"PENDING", "PROCESSING">>,
              <<"PROCESSING", "COMPLETE">>, <<"COMPLETE", "FREE">>}

\* C5: in every step of the hypervisor and of the device model the marker of
\* the shared slot stays or moves along one of FREE -> PENDING ->
\* PROCESSING -> COMPLETE -> FREE; a step of the hypervisor that changes it
\* writes PENDING or FREE, never PROCESSING or COMPLETE, and writes FREE only
\* over COMPLETE.
C5_SlotCycle ==
    [][vhm_req'.processed # vhm_req.processed =>
          /\ <<vhm_req.processed, vhm_req'.processed>> \in SlotEdges
          /\ writer' = "hv" =>
                /\ vhm_req'.processed \in {"PENDING", "FREE"}
                /\ vhm_req'.processed = "FREE" => vhm_req.processed = "COMPLETE"]_vars

\* C5: a slot the hypervisor published, the device model completed and the
\* hypervisor freed again
C5_CycleClosed ==
    /\ nops.exits > 0
    /\ status.op \in {"post", "mmio_post"}
    /\ writer = "hv"
    /\ vhm_req.processed = "FREE"
    /\ vhm_req.valid = 0
    /\ vhm_req.address # 0

\* the handlers of the port list whose range holds the whole request
PioContaining(port, size) ==
    {k \in 1 .. Len(io_handler) :
        Contained(io_handler[k].addr, io_handler[k].len, port, size)}

\* C6: when the range of a port request lies inside the range of exactly one
\* registered handler, hv_emulate_pio returns 0 and invokes the callback of
\* that handler, the one of the request's direction, and no other.
C6_ContainedDispatch ==
    [][PioExit =>
          \A k \in PioContaining(req'.address, req'.size) :
              PioContaining(req'.address, req'.size) = {k} =>
                  /\ status'.dispatch = 0
                  /\ Len(invoked') = 1
                  /\ invoked'[1].fn = io_handler[k].fn
                  /\ invoked'[1].op = IF req'.direction = "READ"
                                      THEN "read" ELSE "write"]_vars

\* the request of the step partially overlaps a registered range
PartialOverlap ==
    \/ /\ req'.type = "REQ_PORTIO"
       /\ \E k \in 1 .. Len(io_handler) :
             /\ Overlaps(io_handler[k].addr, io_handler[k].len,
                         req'.address, req'.size)
             /\ ~Contained(io_handler[k].addr, io_handler[k].len,
                           req'.address, req'.size)
    \/ /\ req'.type \in {"REQ_MMIO", "REQ_WP"}
       /\ \E k \in 1 .. Len(mmio_list) :
             /\ Overlaps(mmio_list[k].range_start,
                         mmio_list[k].range_end - mmio_list[k].range_start,
                         req'.address, req'.size)
             /\ ~Contained(mmio_list[k].range_start,
                           mmio_list[k].range_end - mmio_list[k].range_start,
                           req'.address, req'.size)

\* C7: when the range of a request overlaps a registered range without lying
\* inside it, the dispatch returns -EIO and invokes no callback, whatever
\* else is registered.
C7_SpanningRejected ==
    [][(AnyExit /\ PartialOverlap) =>
          (status'.dispatch = -EIO /\ invoked' = <<>>)]_vars

\* the ports of a range given to allow or deny
PortsOf(base, n) == {p \in base .. (base + n - 1) : p <= 65535}

\* the last two bitmap operations are an allow and a deny of one range
RoundTrip ==
    /\ Len(last) = 2
    /\ last[1].op # last[2].op
    /\ last[1].base = last[2].base
    /\ last[1].n = last[2].n

\* C8 as stated: after an allow and a deny of the same range, in either
\* order, each port of the range has the trap bit it had before the two.
C8_RoundTripRestores ==
    RoundTrip => \A p \in PortsOf(last[2].base, last[2].n) :
                     Trapped(iobitmap, p) = Trapped(last[1].bm, p)

\* C8: after an allow and a deny of the same range, each port of the range
\* has the trap bit the later of the two gives it: set after allow then deny,
\* clear after deny then allow.  So a port gets back the bit it had exactly
\* when that bit was already the one the later operation writes.
C8_LastOperationWins ==
    RoundTrip => \A p \in PortsOf(last[2].base, last[2].n) :
                     /\ Trapped(iobitmap, p) = (last[2].op = "deny")
                     /\ (Trapped(iobitmap, p) = Trapped(last[1].bm, p))
                            = (Trapped(last[1].bm, p) = (last[2].op = "deny"))

\* C8: an allow then a deny of a range that crosses from bitmap A to bitmap
\* B, with ports that were not trapped before and are trapped after
C8_AllowThenDeny ==
    /\ RoundTrip
    /\ last[2].op = "deny"
    /\ last[2].base < 32768
    /\ last[2].base + last[2].n > 32768
    /\ \E p \in PortsOf(last[2].base, last[2].n) :
          p >= 32768 /\ ~Trapped(last[1].bm, p) /\ Trapped(iobitmap, p)

\* C9 as stated: a guest port access whose dispatch finds no handler or a
\* spanning request never makes pio_instr_vmexit_handler return an error.
C9_NeverSurfaced ==
    (status.op = "pio" /\ status.dispatch \in {-ENODEV, -EIO}) => status.ret = 0

\* C9: of the two dispatch errors only the not-found one is resolved.  A
\* spanning request makes pio_instr_vmexit_handler return -EIO with RAX, the
\* shared slot and the virtual core's run state as they were and no
\* callback invoked.  A request no handler claims is completed with the
\* default value in partition mode; otherwise it is handed to the device
\* model (slot valid and PENDING, core paused, RAX as it was, 0 returned),
\* unless publishing it fails, and then the error of that is returned with
\* the slot as it was.
C9_OnlyNotFoundResolved ==
    [][PioExit =>
          /\ status'.dispatch = -EIO =>
                /\ status'.ret = -EIO
                /\ rax' = rax /\ vhm_req' = vhm_req /\ vstate' = vstate
                /\ invoked' = <<>>
          /\ (status'.dispatch = -ENODEV /\ partition_mode) =>
                /\ status'.ret = 0
                /\ vhm_req' = vhm_req /\ vstate' = vstate
          /\ (status'.dispatch = -ENODEV /\ ~partition_mode) =>
                /\ rax' = rax
                /\ \/ /\ status'.ret = 0
                      /\ vhm_req'.valid = 1 /\ vhm_req'.processed = "PENDING"
                      /\ vstate' = "paused"
                   \/ /\ status'.ret < 0
                      /\ vhm_req' = vhm_req /\ vstate' = vstate]_vars

\* C9: a spanning guest port access has returned -EIO
C9_SpanningReturned ==
    /\ status.op = "pio"
    /\ status.dispatch = -EIO
    /\ status.ret = -EIO
    /\ vhm_req.valid = 0

\* C10: in partition mode, for a guest port access that overlaps no
\* registered range, emulate_io returns 0, the shared slot and the run state
\* of the virtual core are untouched and no callback is invoked; after a
\* read of s bytes the low 8*s bits of RAX are ones, and a write leaves RAX
\* as it was.
C10_PartitionDefault ==
    [][(PioExit /\ partition_mode
        /\ \A k \in 1 .. Len(io_handler) :
              ~Overlaps(io_handler[k].addr, io_handler[k].len,
                        req'.address, req'.size)) =>
          /\ status'.dispatch = -ENODEV
          /\ status'.emulate = 0
          /\ vhm_req' = vhm_req /\ vstate' = vstate /\ prework' = prework
          /\ invoked' = <<>>
          /\ IF req'.direction = "READ"
             THEN 0 .. (8 * req'.size - 1) \subseteq rax'
             ELSE rax' = rax]_vars

\* C10: a two-byte read of a port no handler claims, in partition mode, has
\* left ones in the low 16 bits of RAX and the bits above as they were
C10_DefaultRead ==
    /\ partition_mode
    /\ status.op = "pio"
    /\ status.dispatch = -ENODEV
    /\ req.direction = "READ"
    /\ req.size = 2
    /\ 0 .. 15 \subseteq rax
    /\ 17 \notin rax
    /\ vhm_req.valid = 0

\* the step is a call of register_mmio_emulation_handler that returns
\* something new or changes the list
RegisterMmioStep ==
    /\ status'.op = "register_mmio"
    /\ status' # status \/ mmio_list' # mmio_list

\* C11: a call of register_mmio_emulation_handler made when some virtual
\* core of the machine, whichever, has been launched returns -EINVAL and
\* leaves the MMIO list as it was.
C11_RefusedOnceAnyCoreRuns ==
    [][(RegisterMmioStep /\ \E v \in Vcpus : launched[v]) =>
          (status'.ret = -EINVAL /\ mmio_list' = mmio_list)]_vars

\* C12: once the bitmaps are set up, every port in the range of every
\* handler of the port-handler list has its trap bit set.
C12_HandlerImpliesTrap ==
    Allocated =>
        \A k \in 1 .. Len(io_handler) :
            \A p \in PortsOf(io_handler[k].addr, io_handler[k].len) :
                Trapped(iobitmap, p)

\* C13: a call of emulate_io_post that finds the slot not valid, or its
\* marker not COMPLETE, leaves the slot, the virtual core's request, RAX,
\* the requested pre-work and the run state of the virtual core as they
\* were.
C13_PollIsNoOp ==
    [][(status.op # "post" /\ status'.op = "post"
        /\ (vhm_req.valid = 0 \/ vhm_req.processed # "COMPLETE")) =>
          /\ vhm_req' = vhm_req
          /\ req' = req
          /\ rax' = rax
          /\ prework' = prework
          /\ vstate' = vstate]_vars

\* C13: emulate_io_post has run on a published request the device model
\* has not taken yet, and the virtual core is still paused
C13_PolledWhilePending ==
    /\ status.op = "post"
    /\ vhm_req.valid = 1
    /\ vhm_req.processed = "PENDING"
    /\ vstate = "paused"

\* C14: a call of emulate_io_post that finds the slot valid and COMPLETE
\* and the virtual core a zombie clears the slot's validity and resets its
\* marker to FREE, writes neither RAX nor the virtual core's request, asks
\* for no pre-work and leaves the core a zombie.
C14_ZombieConsumes ==
    [][(status'.op = "post"
        /\ (status.op # "post" \/ vhm_req' # vhm_req)
        /\ vhm_req.valid = 1 /\ vhm_req.processed = "COMPLETE"
        /\ vstate = "zombie") =>
          /\ vhm_req'.valid = 0
          /\ vhm_req'.processed = "FREE"
          /\ rax' = rax
          /\ req' = req
          /\ prework' = prework
          /\ vstate' = "zombie"]_vars

\* C14: the completed read of a zombie core has been consumed: the slot is
\* free and the value the device model returned was copied nowhere
C14_ZombieConsumed ==
    /\ status.op = "post"
    /\ vstate = "zombie"
    /\ writer = "hv"
    /\ vhm_req.valid = 0
    /\ vhm_req.processed = "FREE"
    /\ req.type = "REQ_PORTIO"
    /\ req.direction = "READ"
    /\ vhm_req.value # req.value

\* the calls that have claimed smp_call_mask and have not returned
InFlight == {cfun[i] : i \in {j \in Cpus : cpc[j] \notin {"idle", "claim"}}}

\* C15: a core that is inside the function its handler invoked runs the
\* function of a call in flight, with the argument of that call; and no
\* handler that found its bit set goes on to clear the bit with no function
\* run (the slot's func read as null).
C15_RunsCurrentCall ==
    \A c \in Cpus :
        /\ hpc[c] = "run" =>
              /\ hfun[c] \in InFlight
              /\ ~calls[hfun[c]].badarg
        /\ hpc[c] # "clr"


\* the step is a call of emulate_io_post that finds the slot valid and
\* COMPLETE
PostOfCompleted ==
    /\ status'.op = "post"
    /\ status.op # "post" \/ vhm_req' # vhm_req
    /\ vhm_req.valid = 1
    /\ vhm_req.processed = "COMPLETE"

\* C16: a guest port access that is handed off (emulate_io returns
\* IOREQ_PENDING) leaves RAX as it was; RAX changes only in an exit that
\* was emulated at once or in a call of emulate_io_post that finds the slot
\* valid and COMPLETE; such a call, for a port request of a core that is
\* not a zombie, puts the low 8*size bits of the slot's value into the low
\* 8*size bits of RAX and keeps the other bits when the access is a read,
\* keeps RAX when it is a write, and leaves the slot invalid and FREE and
\* the core running.
C16_RaxWrittenAtCompletion ==
    [][/\ (PioExit /\ status'.emulate = IOREQ_PENDING) => rax' = rax
       /\ rax' # rax => \/ PioExit /\ status'.emulate = 0
                        \/ PostOfCompleted
       /\ (PostOfCompleted /\ vstate # "zombie"
           /\ req.type \in {"REQ_PORTIO", "REQ_PCICFG"}) =>
             /\ IF req.direction = "READ"
                THEN \A i \in 0 .. 63 :
                        i \in rax' <=> IF i < 8 * req.size
                                       THEN i \in vhm_req.value
                                       ELSE i \in rax
                ELSE rax' = rax
             /\ vhm_req'.valid = 0
             /\ vhm_req'.processed = "FREE"
             /\ vstate' = "running"]_vars

\* C16: a one-byte read the device model completed with 0x12345678 has been
\* posted: the low byte of RAX is 0x78 and bit 9, set in the value, is not
\* set in RAX
C16_ReadPosted ==
    /\ status.op = "post"
    /\ req.type = "REQ_PORTIO"
    /\ req.direction = "READ"
    /\ req.size = 1
    /\ writer = "hv"
    /\ vhm_req.valid = 0
    /\ vhm_req.processed = "FREE"
    /\ vstate = "running"
    /\ req.value = vhm_req.value
    /\ 9 \in vhm_req.value
    /\ 9 \notin rax
    /\ 3 \in rax
    /\ 0 \notin rax

\* the handlers of the port list whose range meets the request's
PioMeeting(port, size) ==
    {k \in 1 .. Len(io_handler) :
        Overlaps(io_handler[k].addr, io_handler[k].len, port, size)}

\* C17: a port dispatch invokes at most one callback; when the range of the
\* request lies inside several registered ranges, the callback invoked is
\* the one of the handler registered last among those whose range meets
\* the request's (the list is kept most recent first).
C17_MostRecentFirst ==
    [][PioExit =>
          /\ Len(invoked') <= 1
          /\ Cardinality(PioContaining(req'.address, req'.size)) >= 2 =>
                /\ Len(invoked') = 1
                /\ \E k \in PioMeeting(req'.address, req'.size) :
                      /\ \A j \in PioMeeting(req'.address, req'.size) : k <= j
                      /\ invoked'[1].fn = io_handler[k].fn]_vars

\* C18: a handler whose range ends at the top of the port space
\* (base + len = 0x10000) is matched like any other: a request inside its
\* range that meets no handler registered after it is dispatched to it.
C18_TopOfPortSpace ==
    [][PioExit =>
          \A k \in PioContaining(req'.address, req'.size) :
              (/\ io_handler[k].addr + io_handler[k].len = 65536
               /\ \A j \in PioMeeting(req'.address, req'.size) : k <= j) =>
                  /\ status'.dispatch = 0
                  /\ Len(invoked') = 1
                  /\ invoked'[1].fn = io_handler[k].fn]_vars

\* the step is a call of register_io_emulation_handler in which the
\* allocation of the node fails
NomemStep ==
    /\ status'.op \in {"nomem", "fault"}
    /\ status' # status \/ io_handler' # io_handler

\* C19: a registration whose allocation fails leaves the port-handler list
\* with exactly the handlers it had, and dereferences no null node.
C19_FailsCleanly ==
    [][NomemStep => (io_handler' = io_handler /\ status'.op # "fault")]_vars

\* the step is a call of unregister_mmio_emulation_handler
UnregisterStep ==
    /\ status'.op = "unregister"
    /\ status' # status \/ mmio_list' # mmio_list

\* the places of the nodes of list whose range is exactly (start, end)
ExactMatches(list, start, end) ==
    {k \in 1..Len(list) : list[k].range_start = start /\ list[k].range_end = end}

\* list without its k-th node
Without(list, k) ==
    [i \in 1..(Len(list) - 1) |-> IF i < k THEN list[i] ELSE list[i + 1]]

\* C20: unregistration removes exactly the first node whose range equals
\* (start, end) and keeps every other node in its order; when no node has
\* exactly that range, the list is unchanged.
C20_RemovesFirstExactMatch ==
    [][UnregisterStep =>
         LET M == ExactMatches(mmio_list, status'.start, status'.end)
         IN  IF M = {} THEN mmio_list' = mmio_list
             ELSE mmio_list' =
                    Without(mmio_list, CHOOSE k \in M : \A j \in M : k <= j)]_vars

\* the range (4096, 8192) was registered twice around (6144, 6400), and
\* unregistering it has removed the node at the head only
C20_FirstOfTwoRemoved ==
    /\ status = [op |-> "unregister", start |-> 4096, end |-> 8192]
    /\ mmio_list = <<[range_start |-> 6144, range_end |-> 6400, fn |-> 2],
                     [range_start |-> 4096, range_end |-> 8192, fn |-> 1]>>
====
